---- MODULE Spec2Model ----
(***************************************************************************)
(* Model of run.py: the command-line entry point, ensure_ffmpeg_installed  *)
(* and download_youtube_audio.  External tools (ffmpeg, yt-dlp, pip, the   *)
(* network, the filesystem) are the environment: each call into them is a  *)
(* nondeterministic choice over the outcomes the call can have.            *)
(*                                                                         *)
(* Text is modelled as a sequence of tokens.  The token "M" stands for the *)
(* substring "[ExtractAudio] Destination:" (without the trailing blank),   *)
(* " " for one whitespace character, "d/" for the output folder prefix     *)
(* os.path.join puts in front of a name, ".mp3" for that suffix, and any   *)
(* other token for other text.                                             *)
(***************************************************************************)
EXTENDS Integers, Sequences, FiniteSets, TLC

VARIABLES
    pc,            \* position of the program
    frozen,        \* getattr(sys, 'frozen', False)
    os,            \* platform.system()
    out,           \* what has been written to standard output, in order
    promptShown,   \* input("Press Enter to exit...") has been displayed
    exitStatus,    \* process exit status, -1 while running
    ffProbe,       \* outcome of running "ffmpeg -version"
    tempDir,       \* the temp directory exists
    netAccess,     \* urlretrieve has been called
    exeCopied,     \* ffmpeg.exe has been copied next to the program
    ffRet,         \* result of ensure_ffmpeg_installed
    url,           \* youtube_url
    command,       \* argv handed to subprocess.run in download_youtube_audio
    rc,            \* result.returncode
    stdout,        \* result.stdout as its sequence of lines
    stderr,        \* result.stderr
    listing,       \* content of the output folder, in os.listdir order
    mp3_file,      \* local mp3_file of download_youtube_audio (<<>> when falsy)
    scanned,       \* the marker scan (lines 102-105) has been entered
    listed,        \* os.listdir (line 109) has been called
    fault,         \* the step of download_youtube_audio that failed, or "none"
    dlRet          \* result of download_youtube_audio

vars == <<pc, frozen, os, out, promptShown, exitStatus, ffProbe, tempDir,
          netAccess, exeCopied, ffRet, url, command, rc, stdout, stderr,
          listing, mp3_file, scanned, listed, fault, dlRet>>

mainVars == <<promptShown, exitStatus>>
ffVars   == <<ffProbe, tempDir, netAccess, exeCopied, ffRet>>
dlVars   == <<url, command, rc, stdout, stderr, listing, mp3_file, scanned,
              listed, fault, dlRet>>

----------------------------------------------------------------------------
\* Bounds of the model

MaxLines == 2

MaxEntries == 2

----------------------------------------------------------------------------
\* Inputs the environment can produce

OSes == {"Windows", "Darwin", "Linux"}

Urls == {"https://youtu.be/x"}

ReturnCodes == {-9, 0, 1}

ErrTexts == {"video unavailable", "network error"}

\* Lines yt-dlp may print: other text; a marker line; a marker line with a
\* prefix and surrounding blanks; the marker not followed by a blank.
Lines ==
    { <<"x">>,
      <<"M", " ", "d/", "a", ".mp3">>,
      <<"x", "M", " ", " ", "d/", "b", ".mp3", " ">>,
      <<"M", "d/", "a", ".mp3">> }

\* Entries the output folder may hold: two names ending in .mp3, one of them
\* also as a directory, and a name with another ending.
Entries ==
    { [name |-> <<"a", ".mp3">>, kind |-> "file"],
      [name |-> <<"b", ".mp3">>, kind |-> "file"],
      [name |-> <<"b", ".mp3">>, kind |-> "dir"],
      [name |-> <<"n">>, kind |-> "file"] }

EntryAt(e, t) == [name |-> e.name, kind |-> e.kind, ctime |-> t]

SeqsUpTo(S, n) == UNION { [1..k -> S] : k \in 0..n }

Stdouts == SeqsUpTo(Lines, MaxLines)

\* A folder content: distinct names, each a file or a directory, with
\* distinct creation times; the order is the one os.listdir reports.
Listings ==
    { l \in SeqsUpTo({EntryAt(e, t) : e \in Entries, t \in 1..MaxEntries},
                     MaxEntries) :
        /\ \A i, j \in DOMAIN l : i # j => l[i].name # l[j].name
        /\ \A i \in DOMAIN l : l[i].ctime <= Len(l)
        /\ \A i, j \in DOMAIN l : i # j => l[i].ctime # l[j].ctime }

NoResult == [kind |-> "unset", path |-> <<>>]
NoneResult == [kind |-> "none", path |-> <<>>]
RaisedResult == [kind |-> "raised", path |-> <<>>]
PathResult(p) == [kind |-> "path", path |-> p]

\* print(...): a message is its fixed text and the value formatted into it
Msg(text, arg) == [text |-> text, arg |-> arg]
Say(text) == Append(out, Msg(text, <<>>))
SayWith(text, arg) == Append(out, Msg(text, arg))
Said(text) == \E i \in DOMAIN out : out[i].text = text
SaidWith(text, arg) == \E i \in DOMAIN out : out[i] = Msg(text, arg)

----------------------------------------------------------------------------
\* Pure helpers of download_youtube_audio

output_folder == "d/"

\* os.path.join(output_folder, f)
Join(folder, name) == <<folder>> \o name

\* f.endswith('.mp3')
EndsWithMp3_all(name) == Len(name) > 0
EndsWithMp3(name) == Len(name) > 0 /\ name[Len(name)] = ".mp3"

\* os.path.exists(path): a path exists when it names an entry of the output
\* folder, whatever its kind
Exists(path, l) == \E i \in DOMAIN l : Join(output_folder, l[i].name) = path

\* "[ExtractAudio] Destination:" in line
HasMarker(line) == \E i \in DOMAIN line : line[i] = "M"

\* positions where the separator "[ExtractAudio] Destination: " starts
SepAt(line) ==
    { i \in 1..(Len(line) - 1) : line[i] = "M" /\ line[i + 1] = " " }

Min(S) == CHOOSE x \in S : \A y \in S : x <= y

\* line.split("[ExtractAudio] Destination: "): number of pieces
SplitCount(line) == Cardinality(SepAt(line)) + 1

\* line.split("[ExtractAudio] Destination: ")[1], defined when SplitCount > 1
SplitSecond(line) ==
    LET i    == Min(SepAt(line))
        rest == SubSeq(line, i + 2, Len(line))
    IN  IF SepAt(rest) = {} THEN rest
        ELSE SubSeq(rest, 1, Min(SepAt(rest)) - 1)

\* str.strip()
RECURSIVE lstrip(_)
lstrip(s) == IF s # <<>> /\ Head(s) = " " THEN lstrip(Tail(s)) ELSE s

RECURSIVE rstrip(_)
rstrip(s) ==
    IF s # <<>> /\ s[Len(s)] = " " THEN rstrip(SubSeq(s, 1, Len(s) - 1)) ELSE s

strip_none(s) == s
strip(s) == rstrip(lstrip(s))

\* The loop of lines 102-105: the first line holding the marker decides;
\* the result is [raised |-> IndexError?, file |-> mp3_file]
RECURSIVE ScanLines(_)
ScanLines(lines) ==
    IF lines = <<>> THEN [raised |-> FALSE, file |-> <<>>]
    ELSE IF HasMarker(Head(lines))
         THEN IF SplitCount(Head(lines)) < 2
              THEN [raised |-> TRUE, file |-> <<>>]
              ELSE [raised |-> FALSE, file |-> strip(SplitSecond(Head(lines)))]
         ELSE ScanLines(Tail(lines))

\* mp3_files of lines 109-110
RECURSIVE Mp3Files(_)
Mp3Files(l) ==
    IF l = <<>> THEN <<>>
    ELSE IF EndsWithMp3(Head(l).name)
         THEN <<Join(output_folder, Head(l).name)>> \o Mp3Files(Tail(l))
         ELSE Mp3Files(Tail(l))

\* result.returncode != 0
Failed_positive(code) == code > 0
Failed(code) == code # 0

\* lines 65-76: the paths of yt-dlp and ffmpeg
ToolPaths(fr, sys) ==
    IF fr /\ sys = "Windows"
    THEN [yt_dlp |-> "base/yt-dlp.exe", ffmpeg |-> "base/ffmpeg.exe"]
    ELSE IF fr /\ sys = "Darwin"
    THEN [yt_dlp |-> "base/yt-dlp", ffmpeg |-> "base/ffmpeg"]
    ELSE [yt_dlp |-> "yt-dlp", ffmpeg |-> "ffmpeg"]

\* os.path.dirname(ffmpeg_path)
Dirname(p) == IF p \in {"base/ffmpeg.exe", "base/ffmpeg"} THEN "base" ELSE ""

\* lines 78-88
Command(fr, sys, u) ==
    << ToolPaths(fr, sys).yt_dlp, "-f", "bestaudio", "-o", "d/%(title)s.%(ext)s",
       "--extract-audio", "--audio-format", "mp3", "--audio-quality", "0",
       "--restrict-filenames", "--ffmpeg-location",
       Dirname(ToolPaths(fr, sys).ffmpeg), u >>

----------------------------------------------------------------------------
\* Pure helpers of ensure_ffmpeg_installed and of the entry point

\* platform.system() != "Windows"
ManualOnly_linux(sys) == sys = "Linux"
ManualOnly(sys) == sys # "Windows"

\* not ensure_ffmpeg_installed()
NotInstalled_never(r) == FALSE
NotInstalled(r) == r = "False"

----------------------------------------------------------------------------
Init ==
    /\ pc = "start"
    /\ frozen \in BOOLEAN
    /\ os \in OSes
    /\ out = <<>>
    /\ promptShown = FALSE
    /\ exitStatus = -1
    /\ ffProbe = "unset"
    /\ tempDir = FALSE
    /\ netAccess = FALSE
    /\ exeCopied = FALSE
    /\ ffRet = "unset"
    /\ url = ""
    /\ command = <<>>
    /\ rc = 0
    /\ stdout = <<>>
    /\ stderr = ""
    /\ listing = <<>>
    /\ mp3_file = <<>>
    /\ scanned = FALSE
    /\ listed = FALSE
    /\ fault = "none"
    /\ dlRet = NoResult

----------------------------------------------------------------------------
\* The entry point, lines 124-160

\* lines 125-131 and 136: the banner, then the branch on sys.frozen
M_Start ==
    /\ pc = "start"
    /\ out' = IF frozen
              THEN out \o <<Msg("YouTube to MP3 Downloader", <<>>),
                             Msg("Python version:", <<>>),
                             Msg("Running as bundled executable", <<>>)>>
              ELSE out \o <<Msg("YouTube to MP3 Downloader", <<>>),
                             Msg("Python version:", <<>>)>>
    /\ pc' = IF frozen THEN "ff_probe" ELSE "check_ytdlp"
    /\ UNCHANGED <<frozen, os, mainVars, ffVars, dlVars>>

\* lines 138-141: run "yt-dlp --version"; FileNotFoundError leads to pip
M_CheckYtDlp ==
    /\ pc = "check_ytdlp"
    /\ \E found \in BOOLEAN :
         IF found
         THEN /\ pc' = "ff_probe"
              /\ out' = out
         ELSE /\ pc' = "pip_install"
              /\ out' = Say("yt-dlp is not installed. Installing now...")
    /\ UNCHANGED <<frozen, os, mainVars, ffVars, dlVars>>

\* lines 142-143: pip install with check=True; a failing pip raises
\* CalledProcessError, which nothing catches
M_PipInstall ==
    /\ pc = "pip_install"
    /\ \E ok \in BOOLEAN :
         IF ok
         THEN /\ pc' = "ff_probe"
              /\ out' = Say("yt-dlp installed successfully.")
         ELSE /\ pc' = "unhandled"
              /\ out' = out
    /\ UNCHANGED <<frozen, os, mainVars, ffVars, dlVars>>

\* an exception reached the top level: traceback, exit status 1
M_Unhandled ==
    /\ pc = "unhandled"
    /\ pc' = "crashed"
    /\ exitStatus' = 1
    /\ UNCHANGED <<frozen, os, out, promptShown, ffVars, dlVars>>

\* lines 133-134 and 145-146, then line 149
M_AfterEnsure ==
    /\ pc = "ff_done"
    /\ IF NotInstalled(ffRet)
       THEN /\ promptShown' = TRUE
            /\ pc' = "exit1"
            /\ out' = out
       ELSE /\ promptShown' = promptShown
            /\ pc' = "ask_url"
            /\ out' = Say("Make sure you have ffmpeg installed (brew install ffmpeg)")
    /\ UNCHANGED <<frozen, os, exitStatus, ffVars, dlVars>>

\* lines 135 and 147: sys.exit(1)
M_Exit1 ==
    /\ pc = "exit1"
    /\ exitStatus' = 1
    /\ pc' = "exited"
    /\ UNCHANGED <<frozen, os, out, promptShown, ffVars, dlVars>>

\* line 151
M_AskUrl ==
    /\ pc = "ask_url"
    /\ url' \in Urls
    /\ pc' = "dl_makedirs"
    /\ UNCHANGED <<frozen, os, out, mainVars, ffVars, command, rc, stdout,
                   stderr, listing, mp3_file, scanned, listed, fault, dlRet>>

\* lines 154-160: report the result, show the final prompt, end normally
M_Report ==
    /\ pc = "dl_done"
    /\ out' = IF dlRet.kind = "path"
              THEN SayWith("Success! File saved to:", dlRet.path)
              ELSE Say("Download failed. Please check the errors above.")
    /\ promptShown' = TRUE
    /\ exitStatus' = 0
    /\ pc' = "exited"
    /\ UNCHANGED <<frozen, os, ffVars, dlVars>>

----------------------------------------------------------------------------
\* ensure_ffmpeg_installed, lines 10-50

ffError == "Error downloading FFmpeg:"

\* lines 12-21: run "ffmpeg -version" with check=True.  "notfound" is
\* FileNotFoundError, "failed" a SubprocessError (non-zero exit), "oserror"
\* any other exception of subprocess.run (PermissionError), which the except
\* clause of line 16 does not name.
E_Probe ==
    /\ pc = "ff_probe"
    /\ \E r \in {"ok", "notfound", "failed", "oserror"} :
         /\ ffProbe' = r
         /\ CASE r = "ok" ->
                   /\ ffRet' = "True"
                   /\ pc' = "ff_done"
                   /\ out' = out
              [] r = "oserror" ->
                   /\ ffRet' = "raised"
                   /\ pc' = "unhandled"
                   /\ out' = out
              [] OTHER ->
                   IF ManualOnly(os)
                   THEN /\ ffRet' = "False"
                        /\ pc' = "ff_done"
                        /\ out' = Say("FFmpeg is not installed. Please install it manually.")
                   ELSE /\ ffRet' = ffRet
                        /\ pc' = "ff_makedirs"
                        /\ out' = Say("FFmpeg not found. Downloading...")
    /\ UNCHANGED <<frozen, os, mainVars, tempDir, netAccess, exeCopied, dlVars>>

\* lines 24-25: os.makedirs(temp_dir, exist_ok=True)
E_Makedirs ==
    /\ pc = "ff_makedirs"
    /\ \E ok \in BOOLEAN :
         IF ok
         THEN /\ tempDir' = TRUE
              /\ pc' = "ff_download"
              /\ UNCHANGED <<out, ffRet>>
         ELSE /\ tempDir' = tempDir
              /\ out' = Say(ffError)
              /\ ffRet' = "False"
              /\ pc' = "ff_done"
    /\ UNCHANGED <<frozen, os, mainVars, ffProbe, netAccess, exeCopied, dlVars>>

\* lines 28-30: urllib.request.urlretrieve
E_Download ==
    /\ pc = "ff_download"
    /\ netAccess' = TRUE
    /\ \E ok \in BOOLEAN :
         IF ok
         THEN /\ pc' = "ff_extract"
              /\ UNCHANGED <<out, ffRet>>
         ELSE /\ out' = Say(ffError)
              /\ ffRet' = "False"
              /\ pc' = "ff_done"
    /\ UNCHANGED <<frozen, os, mainVars, ffProbe, tempDir, exeCopied, dlVars>>

\* lines 33-34: zipfile.ZipFile(...).extractall
E_Extract ==
    /\ pc = "ff_extract"
    /\ \E ok \in BOOLEAN :
         IF ok
         THEN /\ pc' = "ff_walk"
              /\ UNCHANGED <<out, ffRet>>
         ELSE /\ out' = Say(ffError)
              /\ ffRet' = "False"
              /\ pc' = "ff_done"
    /\ UNCHANGED <<frozen, os, mainVars, ffProbe, tempDir, netAccess, exeCopied,
                   dlVars>>

\* lines 37-42: walk the unpacked tree; copy the first ffmpeg.exe found, if
\* there is one; the loop ends without a copy when there is none
E_Walk ==
    /\ pc = "ff_walk"
    /\ \E hasExe \in BOOLEAN, copyOk \in BOOLEAN :
         IF hasExe /\ ~copyOk
         THEN /\ out' = Say(ffError)
              /\ ffRet' = "False"
              /\ pc' = "ff_done"
              /\ exeCopied' = exeCopied
         ELSE /\ exeCopied' = hasExe
              /\ pc' = "ff_cleanup"
              /\ UNCHANGED <<out, ffRet>>
    /\ UNCHANGED <<frozen, os, mainVars, ffProbe, tempDir, netAccess, dlVars>>

\* lines 45-47: shutil.rmtree(temp_dir), success message, return True
E_Cleanup ==
    /\ pc = "ff_cleanup"
    /\ \E ok \in BOOLEAN :
         IF ok
         THEN /\ tempDir' = FALSE
              /\ out' = Say("FFmpeg downloaded successfully.")
              /\ ffRet' = "True"
         ELSE /\ tempDir' = tempDir
              /\ out' = Say(ffError)
              /\ ffRet' = "False"
    /\ pc' = "ff_done"
    /\ UNCHANGED <<frozen, os, mainVars, ffProbe, netAccess, exeCopied, dlVars>>

----------------------------------------------------------------------------
\* download_youtube_audio, lines 52-122

\* lines 54-55, before the try of line 57: an exception of os.makedirs
\* leaves the function
D_Makedirs ==
    /\ pc = "dl_makedirs"
    /\ \E present \in BOOLEAN, ok \in BOOLEAN :
         IF present \/ ok
         THEN /\ pc' = "dl_run"
              /\ UNCHANGED <<fault, dlRet>>
         ELSE /\ fault' = "makedirs"
              /\ dlRet' = RaisedResult
              /\ pc' = "unhandled"
    /\ UNCHANGED <<frozen, os, out, mainVars, ffVars, url, command, rc, stdout,
                   stderr, listing, mp3_file, scanned, listed>>

\* lines 58-95: build the command, run yt-dlp, test the return code.  The
\* folder content after the run is what yt-dlp and earlier runs left there.
D_Run ==
    /\ pc = "dl_run"
    /\ command' = Command(frozen, os, url)
    /\ \E launched \in BOOLEAN, code \in ReturnCodes, so \in Stdouts,
          se \in ErrTexts, l \in Listings :
         IF ~launched
         THEN /\ fault' = "launch"
              /\ out' = out \o <<Msg("Attempting to access:", <<url>>),
                                 Msg("Running download command...", <<>>),
                                 Msg("Unexpected error:", <<>>)>>
              /\ dlRet' = NoneResult
              /\ pc' = "dl_done"
              /\ UNCHANGED <<rc, stdout, stderr, listing>>
         ELSE /\ rc' = code
              /\ stdout' = so
              /\ stderr' = se
              /\ listing' = l
              /\ fault' = fault
              /\ IF Failed(code)
                 THEN /\ out' = out \o <<Msg("Attempting to access:", <<url>>),
                                         Msg("Running download command...", <<>>),
                                         Msg("Error downloading:", <<se>>)>>
                      /\ dlRet' = NoneResult
                      /\ pc' = "dl_done"
                 ELSE /\ out' = out \o <<Msg("Attempting to access:", <<url>>),
                                         Msg("Running download command...", <<>>)>>
                      /\ dlRet' = dlRet
                      /\ pc' = "dl_scan"
    /\ UNCHANGED <<frozen, os, mainVars, ffVars, url, mp3_file, scanned, listed>>

\* lines 99-107 and 117-118: scan the lines for the marker; return the path
\* it names when that path exists
D_Scan ==
    /\ pc = "dl_scan"
    /\ scanned' = TRUE
    /\ LET s == ScanLines(stdout) IN
         IF s.raised
         THEN /\ fault' = "parse"
              /\ out' = Say("Unexpected error:")
              /\ dlRet' = NoneResult
              /\ pc' = "dl_done"
              /\ mp3_file' = mp3_file
         ELSE /\ mp3_file' = s.file
              /\ fault' = fault
              /\ IF s.file = <<>> \/ ~Exists(s.file, listing)
                 THEN /\ pc' = "dl_fallback"
                      /\ UNCHANGED <<out, dlRet>>
                 ELSE /\ out' = SayWith("Downloaded and converted to MP3:", s.file)
                      /\ dlRet' = PathResult(s.file)
                      /\ pc' = "dl_done"
    /\ UNCHANGED <<frozen, os, mainVars, ffVars, url, command, rc, stdout,
                   stderr, listing, listed>>

\* lines 108-118: list the folder, keep the names ending in .mp3, take the
\* last one
D_Fallback ==
    /\ pc = "dl_fallback"
    /\ listed' = TRUE
    /\ \E ok \in BOOLEAN :
         IF ~ok
         THEN /\ fault' = "listdir"
              /\ out' = Say("Unexpected error:")
              /\ dlRet' = NoneResult
              /\ mp3_file' = mp3_file
         ELSE LET mp3_files == Mp3Files(listing) IN
              /\ fault' = fault
              /\ IF mp3_files # <<>>
                 THEN /\ mp3_file' = mp3_files[Len(mp3_files)]
                      /\ out' = SayWith("Downloaded and converted to MP3:",
                                          mp3_files[Len(mp3_files)])
                      /\ dlRet' = PathResult(mp3_files[Len(mp3_files)])
                 ELSE /\ mp3_file' = mp3_file
                      /\ out' = Say("Download completed but MP3 file not found.")
                      /\ dlRet' = NoneResult
    /\ pc' = "dl_done"
    /\ UNCHANGED <<frozen, os, mainVars, ffVars, url, command, rc, stdout,
                   stderr, listing, scanned>>

----------------------------------------------------------------------------
Next ==
    \/ M_Start
    \/ M_CheckYtDlp
    \/ M_PipInstall
    \/ M_Unhandled
    \/ E_Probe
    \/ E_Makedirs
    \/ E_Download
    \/ E_Extract
    \/ E_Walk
    \/ E_Cleanup
    \/ M_AfterEnsure
    \/ M_Exit1
    \/ M_AskUrl
    \/ D_Makedirs
    \/ D_Run
    \/ D_Scan
    \/ D_Fallback
    \/ M_Report

Spec == Init /\ [][Next]_vars

----------------------------------------------------------------------------
\* Vocabulary of the properties, stated on the observable inputs and results

\* download_youtube_audio has returned or raised
CallOver == dlRet.kind # "unset"

\* yt-dlp ran and exited 0: the scan of its output was entered
ExitedZero == scanned /\ rc = 0

\* indexes of the stdout lines that hold "[ExtractAudio] Destination:"
MarkerLines == { i \in DOMAIN stdout : \E k \in DOMAIN stdout[i] : stdout[i][k] = "M" }

FirstMarkerLine == stdout[CHOOSE i \in MarkerLines : \A j \in MarkerLines : i <= j]

\* s without its leading and trailing blanks
Trimmed(s) ==
    LET nb == { i \in DOMAIN s : s[i] # " " } IN
    IF nb = {} THEN <<>>
    ELSE SubSeq(s, CHOOSE i \in nb : \A j \in nb : i <= j,
                   CHOOSE i \in nb : \A j \in nb : i >= j)

\* the text of a line after its first "[ExtractAudio] Destination:"
AfterMarker(line) ==
    LET ks == { k \in DOMAIN line : line[k] = "M" }
        k  == CHOOSE x \in ks : \A y \in ks : x <= y
    IN  SubSeq(line, k + 1, Len(line))

\* the marker followed by a blank occurs in the line
MarkerThenBlank(line) ==
    \E k \in DOMAIN line : k < Len(line) /\ line[k] = "M" /\ line[k + 1] = " "

\* the text between the first marker-and-blank of a line and the next one,
\* or the end of the line
AfterMarkerBlank(line) ==
    LET ks == { k \in DOMAIN line : k < Len(line) /\ line[k] = "M" /\ line[k + 1] = " " }
        k  == CHOOSE x \in ks : \A y \in ks : x <= y
        ns == { n \in ks : n > k + 1 }
    IN  IF ns = {} THEN SubSeq(line, k + 2, Len(line))
        ELSE SubSeq(line, k + 2, (CHOOSE x \in ns : \A y \in ns : x <= y) - 1)

\* the paths of the folder entries whose name ends in .mp3
Mp3OnDisk ==
    { i \in DOMAIN listing : listing[i].name[Len(listing[i].name)] = ".mp3" }

OnDisk(p) == \E i \in DOMAIN listing : <<"d/">> \o listing[i].name = p

NewestMp3 == CHOOSE i \in Mp3OnDisk : \A j \in Mp3OnDisk : listing[i].ctime >= listing[j].ctime

----------------------------------------------------------------------------
\* C1: whatever step of download_youtube_audio fails (creating the folder,
\* launching yt-dlp, parsing its output, listing the folder), the call
\* returns None after printing a message and raises nothing.
C1_FailureReturnsNone ==
    fault # "none" => dlRet = NoneResult /\ Said("Unexpected error:")

\* C2: yt-dlp exited 0, no line of stdout holds the marker, the folder was
\* listed and holds a name ending in .mp3: the call returns the path of the
\* most recently created such entry.
C2_FallbackMostRecent ==
    (CallOver /\ ExitedZero /\ MarkerLines = {} /\ fault = "none" /\ Mp3OnDisk # {})
        => dlRet = PathResult(<<"d/">> \o listing[NewestMp3].name)

\* C3: a path returned by download_youtube_audio names a regular file that
\* exists on disk.
C3_ResultIsFile ==
    dlRet.kind = "path" =>
        \E i \in DOMAIN listing :
            <<"d/">> \o listing[i].name = dlRet.path /\ listing[i].kind = "file"

\* C4: on Windows with ffmpeg missing, ensure_ffmpeg_installed either returns
\* True with ffmpeg.exe copied next to the program, or returns False after
\* printing an error; no exception leaves it.
C4_TrueMeansCopied ==
    (os = "Windows" /\ ffProbe = "notfound" /\ ffRet # "unset")
        => \/ ffRet = "True" /\ exeCopied
           \/ ffRet = "False" /\ Said(ffError)

\* C5: the process never ends before the "Press Enter to exit..." prompt was
\* shown, and it ends abnormally only by the exit(1) that follows
\* ensure_ffmpeg_installed returning False.
C5_PromptBeforeExit ==
    pc \in {"exited", "crashed"} =>
        /\ promptShown
        /\ pc = "exited"
        /\ exitStatus # 0 => ffRet = "False"

C7_NonZeroReturnsNone ==
    rc # 0 =>
        /\ dlRet = NoneResult
        /\ SaidWith("Error downloading:", <<stderr>>)
        /\ ~scanned
        /\ ~listed
        /\ pc \in {"dl_done", "exited"}

\* a negative status (the process was killed), a marker line naming an
\* existing file in stdout, and the call over
C7_Witness ==
    /\ rc < 0
    /\ CallOver
    /\ MarkerLines # {}
    /\ MarkerThenBlank(FirstMarkerLine)
    /\ OnDisk(Trimmed(AfterMarkerBlank(FirstMarkerLine)))

\* C8: off Windows, when ffmpeg is missing ensure_ffmpeg_installed returns
\* False after the manual-install message, and at no point of the run is
\* there a download, a temp directory or a copied binary.
C8_NoFetchOffWindows ==
    os # "Windows" =>
        /\ ~netAccess
        /\ ~tempDir
        /\ ~exeCopied
        /\ pc \notin {"ff_makedirs", "ff_download", "ff_extract", "ff_walk", "ff_cleanup"}
        /\ (ffProbe = "notfound" /\ pc # "ff_probe") =>
               /\ ffRet = "False"
               /\ Said("FFmpeg is not installed. Please install it manually.")

C8_Witness ==
    os = "Darwin" /\ ffProbe = "notfound" /\ ffRet = "False" /\ pc = "exited"

\* C9: the URL prompt and download_youtube_audio are reached only after
\* ensure_ffmpeg_installed returned True; when it returned False the run
\* shows the prompt, exits with status 1 and never starts the download.
C9_DownloadOnlyAfterEnsure ==
    /\ (pc \in {"ask_url", "dl_makedirs", "dl_run", "dl_scan", "dl_fallback", "dl_done"}
          \/ url # "" \/ command # <<>> \/ CallOver)
         => ffRet = "True"
    /\ ffRet = "False" =>
         /\ pc \in {"ff_done", "exit1", "exited"}
         /\ pc = "exited" => exitStatus = 1 /\ promptShown

C9_Witness ==
    ffRet = "False" /\ pc = "exited" /\ exitStatus = 1 /\ ~frozen

====
